---- MODULE Spec2Model ----
(***************************************************************************)
(* Model of updater/updater.go of hekmon/btblocklist: the updater          *)
(* goroutine (Controller.updater), one batch (Controller.updaterBatch),    *)
(* the merge and compression (Controller.compileFinalDataBlobFromCache),   *)
(* the status report (Controller.updateStatus), and readers of the         *)
(* published blob that take the read side of compressedDataAccess.         *)
(*                                                                         *)
(* Time is counted in ticker periods (c.frequency); the zero time.Time is  *)
(* 0.  A text is a sequence of tokens, each a line or the newline NL.  A   *)
(* []byte holding a gzip stream is a sequence of <<tag, number>> pairs: a  *)
(* header, the run-length coded tokens, and a trailer carrying the length  *)
(* of the uncompressed text (gzip's ISIZE).                                *)
(***************************************************************************)
EXTENDS Integers, Sequences, FiniteSets, TLC

\* ------------------------------------------------------------------ bounds

\* The clock stops at MaxTime: at most MaxTime batches are started.
MaxTime == 3
\* Number of concurrent readers of the published blob.
NbReaders == 1
\* Longest list of lines held in a slot of the state store of SpecCompile.
MaxLines == 2
\* Ticker periods (the unit of the clock) in one second, the unit of the
\* times shown in the status message.
PeriodsPerSecond == 2

\* ------------------------------------------------------------------ data

NL == "\n"
Lines == {"a", "b"}

\* The configured external sources (keys of c.blocklists), listed in ascending
\* order of name.
SortedNames == <<"alpha", "beta">>
Names == {SortedNames[i] : i \in DOMAIN SortedNames}

\* What a probe can return as new data.
ProbeData == {<<"a">>, <<"b", "a">>}

\* Every list of at most MaxLines lines.
StoreData == UNION {[1..n -> Lines] : n \in 0..MaxLines}

Readers == 1..NbReaders

\* Go's range over a map visits the keys in an unspecified order: every
\* sequence that lists each key once.
MapOrders(S) ==
    {o \in [1..Cardinality(S) -> S] : \A i, j \in DOMAIN o : i # j => o[i] # o[j]}

\* ------------------------------------------------------------- compression

RECURSIVE Concat(_)
Concat(ss) == IF ss = <<>> THEN <<>> ELSE Head(ss) \o Concat(Tail(ss))

\* strings.Join(elems, "\n")
RECURSIVE Join(_)
Join(elems) ==
    IF elems = <<>> THEN <<>>
    ELSE IF Len(elems) = 1 THEN <<elems[1]>>
    ELSE Join(SubSeq(elems, 1, Len(elems) - 1)) \o <<NL, elems[Len(elems)]>>

\* Length of the run of equal tokens that starts a non-empty text.
RunLen(t) ==
    CHOOSE n \in 1..Len(t) :
        /\ \A i \in 1..n : t[i] = t[1]
        /\ n = Len(t) \/ t[n + 1] # t[1]

\* The coded form of a text: one <<token, run length>> pair per run.
RECURSIVE Deflate(_)
Deflate(t) ==
    IF t = <<>> THEN <<>>
    ELSE <<<<t[1], RunLen(t)>>>> \o Deflate(SubSeq(t, RunLen(t) + 1, Len(t)))

RECURSIVE Inflate(_)
Inflate(z) ==
    IF z = <<>> THEN <<>>
    ELSE [i \in 1..z[1][2] |-> z[1][1]] \o Inflate(Tail(z))

GzipHeader == <<"gzip", 0>>
GzipTrailer(t) == <<"isize", Len(t)>>

\* The bytes a gzip.Writer has produced once Close has returned.
GzipStream(t) == <<GzipHeader>> \o Deflate(t) \o <<GzipTrailer(t)>>

GzipBody(b) == SubSeq(b, 2, Len(b) - 1)

\* b is a complete, closed gzip stream.
GzipValid(b) ==
    /\ Len(b) >= 2
    /\ b[1] = GzipHeader
    /\ b[Len(b)][1] = "isize"
    /\ \A i \in 2..(Len(b) - 1) : b[i][1] \notin {"gzip", "isize", "?"} /\ b[i][2] >= 1
    /\ Len(Inflate(GzipBody(b))) = b[Len(b)][2]

Decompress(b) == Inflate(GzipBody(b))

\* ------------------------------------------------------------------ slices

\* A []byte variable is a slice header: the backing array and the length.
NilSlice == [arr |-> <<>>, len |-> 0]

\* The bytes a read of slice s yields; bytes past the backing array are
\* whatever the memory holds.
SliceBytes(s) ==
    [i \in 1..s.len |-> IF i <= Len(s.arr) THEN s.arr[i] ELSE <<"?", 0>>]

\* ------------------------------------------------------------------- state

VARIABLES
    now,             \* the wall clock, read by time.Now()
    tickerOn,        \* the ticker exists and has not been stopped
    tick,            \* a tick waits in ticker.C (a channel of capacity 1)
    cancelled,       \* c.ctx is done
    pc,              \* position of the updater goroutine
    batchStart,      \* updaterBatch: batchStart
    ripeUpdate,      \* updaterBatch: ripeUpdate
    externalUpdate,  \* updaterBatch: externalUpdate
    toProbe,         \* updaterBatch: keys of c.blocklists the range loop has yet to visit
    probed,          \* updaterBatch: calls of each probe made by the running batch
    data,            \* updaterBatch: data
    pre,             \* c.compressedData and c.lastUpdate as updaterBatch found them
    ripeState,       \* c.ripeState
    externalStates,  \* c.externalStates
    compressedData,  \* c.compressedData
    lastUpdate,      \* c.lastUpdate
    lastBatch,       \* c.lastBatch
    writer,          \* c.compressedDataAccess: "free", "pending" or "held" by Lock
    readerCount,     \* c.compressedDataAccess: holders of the read lock
    statusMsg,       \* what c.statusUpdate received from the running batch
    reported,        \* calls of c.statusUpdate made by the running batch
    statusErr,       \* c.statusUpdate returned an error to the running batch
    batches,         \* calls of updaterBatch so far
    consumed,        \* ticks received from ticker.C so far
    rpc,             \* position of each reader
    got              \* what each reader has read

vars == <<now, tickerOn, tick, cancelled, pc, batchStart, ripeUpdate, externalUpdate,
          toProbe, probed, data, pre, ripeState, externalStates, compressedData, lastUpdate,
          lastBatch, writer, readerCount, statusMsg, reported, statusErr, batches,
          consumed,
          rpc, got>>

clockVars == <<now, tickerOn, tick, cancelled>>
localVars == <<batchStart, ripeUpdate, externalUpdate, toProbe, probed, data, pre>>
storeVars == <<ripeState, externalStates>>
cacheVars == <<compressedData, lastUpdate, lastBatch>>
lockVars == <<writer, readerCount>>
statusVars == <<statusMsg, reported, statusErr>>
countVars == <<batches, consumed>>
readerVars == <<rpc, got>>

NoStatus == [ripe |-> 0, lists |-> 0, lines |-> 0, modif |-> 0, update |-> 0]
\* The probes a batch calls: c.updateRipe and, for each key of c.blocklists,
\* c.getExternalBlockList.
Sources == {"ripe"} \cup Names
NoProbe == [src \in Sources |-> 0]
NoPre == [blob |-> NilSlice, lastUpdate |-> 0]
NoRead == [blob |-> <<>>, lastUpdate |-> 0, lastBatch |-> 0]

Init ==
    /\ now = 1
    /\ tickerOn = FALSE
    /\ tick = FALSE
    /\ cancelled = FALSE
    /\ pc = "l19"
    /\ batchStart = 0
    /\ ripeUpdate = FALSE
    /\ externalUpdate = FALSE
    /\ toProbe = {}
    /\ probed = NoProbe
    /\ data = <<>>
    /\ pre = NoPre
    /\ ripeState = <<>>
    /\ externalStates = [n \in Names |-> <<>>]
    /\ compressedData = NilSlice
    /\ lastUpdate = 0
    /\ lastBatch = 0
    /\ writer = "free"
    /\ readerCount = 0
    /\ statusMsg = NoStatus
    /\ reported = 0
    /\ statusErr = FALSE
    /\ batches = 0
    /\ consumed = 0
    /\ rpc = [r \in Readers |-> "idle"]
    /\ got = [r \in Readers |-> NoRead]

\* ------------------------------------------------------------- environment

\* One ticker period elapses; a running ticker sends a tick, which is dropped
\* when one already waits in the channel.
TimePasses ==
    /\ now < MaxTime
    /\ now' = now + 1
    /\ tick' = (tick \/ tickerOn)
    /\ UNCHANGED <<tickerOn, cancelled, pc, localVars, storeVars, cacheVars, lockVars,
                   statusVars, countVars, readerVars>>

\* The context is cancelled.
Cancel ==
    /\ ~cancelled
    /\ cancelled' = TRUE
    /\ UNCHANGED <<now, tickerOn, tick, pc, localVars, storeVars, cacheVars, lockVars,
                   statusVars, countVars, readerVars>>

\* ------------------------------------------------------- Controller.updater

\* ticker := time.NewTicker(c.frequency)
NewTicker ==
    /\ pc = "l19"
    /\ tickerOn' = TRUE
    /\ pc' = "l21"
    /\ UNCHANGED <<now, tick, cancelled, localVars, storeVars, cacheVars, lockVars,
                   statusVars, countVars, readerVars>>

\* A counter of the model, one more: it stops at MaxTime, which it reaches
\* only where ticks go on after the last reading of the clock.
Counted(n) == IF n < MaxTime THEN n + 1 ELSE n

\* The first statement of updaterBatch, reached from either call:
\* batchStart := time.Now(), with the deferred function registered.
EnterBatch ==
    /\ batchStart' = now
    /\ pre' = [blob |-> compressedData, lastUpdate |-> lastUpdate]
    /\ ripeUpdate' = FALSE
    /\ externalUpdate' = FALSE
    /\ toProbe' = {}
    /\ probed' = NoProbe
    /\ data' = <<>>
    /\ batches' = Counted(batches)
    /\ pc' = "b47"

\* c.updaterBatch() before the loop
FirstBatch ==
    /\ pc = "l21"
    /\ EnterBatch
    /\ UNCHANGED <<clockVars, storeVars, cacheVars, lockVars, statusVars, consumed,
                   readerVars>>

\* Mutant of SelectTick: the loop goes on to a batch without a receive from
\* ticker.C (a default case in the select).
SelectTick_NoReceive ==
    /\ pc = "l24"
    /\ pc' = "l26"
    /\ UNCHANGED <<clockVars, localVars, storeVars, cacheVars, lockVars, statusVars,
                   countVars, readerVars>>

\* Mutant of SelectTick: the tick is received, and the next batch called, by
\* a goroutine of its own, whatever the running batch is doing.
SelectTick_Concurrent ==
    /\ tick
    /\ tick' = FALSE
    /\ consumed' = Counted(consumed)
    /\ pc' = "l26"
    /\ UNCHANGED <<now, tickerOn, cancelled, localVars, storeVars, cacheVars, lockVars,
                   statusVars, batches, readerVars>>

\* case <-ticker.C:
SelectTick ==
    /\ pc = "l24"
    /\ tick
    /\ tick' = FALSE
    /\ consumed' = Counted(consumed)
    /\ pc' = "l26"
    /\ UNCHANGED <<now, tickerOn, cancelled, localVars, storeVars, cacheVars, lockVars,
                   statusVars, batches, readerVars>>

\* c.updaterBatch() in the loop
TickBatch ==
    /\ pc = "l26"
    /\ EnterBatch
    /\ UNCHANGED <<clockVars, storeVars, cacheVars, lockVars, statusVars, consumed,
                   readerVars>>

\* Mutant of SelectDone: break in place of return, which leaves the select
\* and not the loop.
SelectDone_Break ==
    /\ pc = "l24"
    /\ cancelled
    /\ pc' = "l24"
    /\ UNCHANGED <<clockVars, localVars, storeVars, cacheVars, lockVars, statusVars,
                   countVars, readerVars>>

\* case <-c.ctx.Done():
SelectDone ==
    /\ pc = "l24"
    /\ cancelled
    /\ pc' = "l29"
    /\ UNCHANGED <<clockVars, localVars, storeVars, cacheVars, lockVars, statusVars,
                   countVars, readerVars>>

\* ticker.Stop(); return
StopTicker ==
    /\ pc = "l29"
    /\ tickerOn' = FALSE
    /\ pc' = "done"
    /\ UNCHANGED <<now, tick, cancelled, localVars, storeVars, cacheVars, lockVars,
                   statusVars, countVars, readerVars>>

\* -------------------------------------------------- Controller.updaterBatch

\* c.updateRipe(): the probe fails or finds nothing new, leaves c.ripeState
\* alone and returns false, or replaces c.ripeState and returns true.
UpdateRipe(updated) ==
    \/ /\ ~updated
       /\ UNCHANGED ripeState
    \/ /\ updated
       /\ \E d \in ProbeData : ripeState' = d

\* c.getExternalBlockList(name, url): the probe fails or finds nothing new,
\* leaves c.externalStates alone and returns false, or replaces the lines of
\* the source and returns true.
GetExternalBlockList(name, updated) ==
    \/ /\ ~updated
       /\ UNCHANGED externalStates
    \/ /\ updated
       /\ \E d \in ProbeData : externalStates' = [externalStates EXCEPT ![name] = d]

\* ripeUpdate := c.updateRipe()
ProbeRipe ==
    /\ pc = "b47"
    /\ \E updated \in BOOLEAN :
         /\ UpdateRipe(updated)
         /\ ripeUpdate' = updated
    /\ probed' = [probed EXCEPT !["ripe"] = @ + 1]
    /\ toProbe' = Names
    /\ pc' = "b49"
    /\ UNCHANGED <<clockVars, batchStart, externalUpdate, data, pre, externalStates,
                   cacheVars, lockVars, statusVars, countVars, readerVars>>

\* Mutant of ProbeExternal: if externalUpdate || c.getExternalBlockList(...),
\* which leaves a source unprobed once an earlier one has returned true.
ProbeExternal_ShortCircuit ==
    /\ pc = "b49"
    /\ \E name \in toProbe :
         /\ toProbe' = toProbe \ {name}
         /\ \/ /\ externalUpdate
               /\ UNCHANGED <<externalStates, externalUpdate, probed>>
            \/ /\ ~externalUpdate
               /\ \E updated \in BOOLEAN :
                    /\ GetExternalBlockList(name, updated)
                    /\ externalUpdate' = updated
               /\ probed' = [probed EXCEPT ![name] = @ + 1]
    /\ UNCHANGED <<clockVars, pc, batchStart, ripeUpdate, data, pre, ripeState,
                   cacheVars, lockVars, statusVars, countVars, readerVars>>

\* One iteration of  for name, url := range c.blocklists :
\* if c.getExternalBlockList(name, url.String()) { externalUpdate = true }
ProbeExternal ==
    /\ pc = "b49"
    /\ \E name \in toProbe :
         /\ toProbe' = toProbe \ {name}
         /\ \E updated \in BOOLEAN :
              /\ GetExternalBlockList(name, updated)
              /\ externalUpdate' = (externalUpdate \/ updated)
         /\ probed' = [probed EXCEPT ![name] = @ + 1]
    /\ UNCHANGED <<clockVars, pc, batchStart, ripeUpdate, data, pre, ripeState,
                   cacheVars, lockVars, statusVars, countVars, readerVars>>

\* Mutant of NoNewData: the test of externalUpdate without its negation.
NoNewData_Slip == ~ripeUpdate /\ externalUpdate

\* if !ripeUpdate && !externalUpdate
NoNewData == ~ripeUpdate /\ ~externalUpdate

\* The loop is over and nothing is new: return (the deferred function runs).
KeepCache ==
    /\ pc = "b49"
    /\ toProbe = {}
    /\ NoNewData
    /\ pc' = "b39"
    /\ UNCHANGED <<clockVars, localVars, storeVars, cacheVars, lockVars, statusVars,
                   countVars, readerVars>>

\* The loop is over and something is new: go on to the compilation.
GlobalUpdate ==
    /\ pc = "b49"
    /\ toProbe = {}
    /\ ~NoNewData
    /\ pc' = "b59"
    /\ UNCHANGED <<clockVars, localVars, storeVars, cacheVars, lockVars, statusVars,
                   countVars, readerVars>>

\* ------------------------------- Controller.compileFinalDataBlobFromCache

Header == <<"# BTBlocklist RIPE search", NL>>

\* The loop over c.externalStates, visiting the keys in the given order: the
\* lines of each source joined by "\n", then one "\n".
RECURSIVE WriteExternal(_, _)
WriteExternal(ext, order) ==
    IF order = <<>> THEN <<>>
    ELSE Join(ext[Head(order)]) \o <<NL>> \o WriteExternal(ext, Tail(order))

\* Mutant of Written: the "\n" after the RIPE lines is not written.
Written_NoNewline(ripe, ext, order) ==
    Header \o Join(ripe) \o WriteExternal(ext, order)

\* Everything written to the compressor, in the order of the writes.
Written(ripe, ext, order) ==
    Header \o Join(ripe) \o <<NL>> \o WriteExternal(ext, order)

\* Mutant of Compiled: the bytes of the buffer taken without compressor.Close(),
\* so that the stream has no trailer.
Compiled_NotClosed(ripe, ext, order) ==
    <<GzipHeader>> \o Deflate(Written(ripe, ext, order))

\* The bytes returned when no write and no Close fails.
Compiled(ripe, ext, order) == GzipStream(Written(ripe, ext, order))

\* data := c.compileFinalDataBlobFromCache(): nil when the compressor reports
\* an error, else the bytes of the buffer.
Compile ==
    /\ pc = "b59"
    /\ \/ data' = <<>>
       \/ \E order \in MapOrders(DOMAIN externalStates) :
            data' = Compiled(ripeState, externalStates, order)
    /\ pc' = "b60"
    /\ UNCHANGED <<clockVars, batchStart, ripeUpdate, externalUpdate, toProbe, probed,
                   pre, storeVars, cacheVars, lockVars, statusVars, countVars, readerVars>>

\* -------------------------------------- Controller.updaterBatch, continued

\* Mutant of CompileFailed: the nil check left out.
CompileFailed_Unchecked == FALSE

\* if data == nil
CompileFailed == data = <<>>

\* return on a failed compilation (the deferred function runs)
GiveUp ==
    /\ pc = "b60"
    /\ CompileFailed
    /\ pc' = "b39"
    /\ UNCHANGED <<clockVars, localVars, storeVars, cacheVars, lockVars, statusVars,
                   countVars, readerVars>>

\* c.compressedDataAccess.Lock(), first half: the writer announces itself, and
\* from then on RLock blocks.
LockAnnounce ==
    /\ pc = "b60"
    /\ ~CompileFailed
    /\ writer' = "pending"
    /\ pc' = "b64"
    /\ UNCHANGED <<clockVars, localVars, storeVars, cacheVars, readerCount, statusVars,
                   countVars, readerVars>>

\* Mutant of ReadersGone: Lock returns while read locks are held.
ReadersGone_NoWait == TRUE

\* What Lock waits for once it has announced itself.
ReadersGone == readerCount = 0

\* c.compressedDataAccess.Lock(), second half: the read locks have been
\* released and Lock returns.
LockAcquire ==
    /\ pc = "b64"
    /\ ReadersGone
    /\ writer' = "held"
    /\ pc' = "b65"
    /\ UNCHANGED <<clockVars, localVars, storeVars, cacheVars, readerCount, statusVars,
                   countVars, readerVars>>

\* c.compressedData = data, the store of the slice's pointer word
StorePointer ==
    /\ pc = "b65"
    /\ compressedData' = [compressedData EXCEPT !.arr = data]
    /\ pc' = "b65len"
    /\ UNCHANGED <<clockVars, localVars, storeVars, lastUpdate, lastBatch, lockVars,
                   statusVars, countVars, readerVars>>

\* c.compressedData = data, the store of the slice's length
StoreLength ==
    /\ pc = "b65len"
    /\ compressedData' = [compressedData EXCEPT !.len = Len(data)]
    /\ pc' = "b66"
    /\ UNCHANGED <<clockVars, localVars, storeVars, lastUpdate, lastBatch, lockVars,
                   statusVars, countVars, readerVars>>

\* Mutant of Unlock: the call of Unlock left out.
Unlock_Missing ==
    /\ pc = "b66"
    /\ pc' = "b67"
    /\ UNCHANGED <<clockVars, localVars, storeVars, cacheVars, lockVars, statusVars,
                   countVars, readerVars>>

\* c.compressedDataAccess.Unlock()
Unlock ==
    /\ pc = "b66"
    /\ writer' = "free"
    /\ pc' = "b67"
    /\ UNCHANGED <<clockVars, localVars, storeVars, cacheVars, readerCount, statusVars,
                   countVars, readerVars>>

\* Mutant of SetLastUpdate: c.lastUpdate = time.Now(), the time of the swap.
SetLastUpdate_Now ==
    /\ pc = "b67"
    /\ lastUpdate' = now
    /\ pc' = "b39"
    /\ UNCHANGED <<clockVars, localVars, storeVars, compressedData, lastBatch, lockVars,
                   statusVars, countVars, readerVars>>

\* c.lastUpdate = batchStart; then the function ends and the deferred one runs
SetLastUpdate ==
    /\ pc = "b67"
    /\ lastUpdate' = batchStart
    /\ pc' = "b39"
    /\ UNCHANGED <<clockVars, localVars, storeVars, compressedData, lastBatch, lockVars,
                   statusVars, countVars, readerVars>>

\* deferred: c.lastBatch = batchStart
SetLastBatch ==
    /\ pc = "b39"
    /\ lastBatch' = batchStart
    /\ pc' = "b40"
    /\ UNCHANGED <<clockVars, localVars, storeVars, compressedData, lastUpdate, lockVars,
                   statusVars, countVars, readerVars>>

\* ---------------------------------------------- Controller.updateStatus

\* Mutant of SumLen: externalLines = len(lines) in place of +=, so that the
\* lines of one source only are counted.
SumLen_Assign(ext, S) ==
    IF S = {} THEN 0 ELSE Len(ext[CHOOSE x \in S : TRUE])

\* for _, lines := range c.externalStates { externalLines += len(lines) }
RECURSIVE SumLen(_, _)
SumLen(ext, S) ==
    IF S = {} THEN 0
    ELSE LET n == CHOOSE x \in S : TRUE IN Len(ext[n]) + SumLen(ext, S \ {n})

\* t.Format(timeFormat): the layout shows whole seconds, so that the instants
\* of one second give one string; the strings are numbered in the order of
\* their seconds, 0 being that of the zero time.Time.
FormatTime(t) == IF t = 0 THEN 0 ELSE (t \div PeriodsPerSecond) + 1

\* Mutant of StatusOf: c.lastBatch and c.lastUpdate passed to updateStatus in
\* each other's place.
StatusOf_Swapped(nbRIPEranges, nbLists, nbLines, lstModif, lstBatch) ==
    [ripe |-> nbRIPEranges, lists |-> nbLists, lines |-> nbLines,
     modif |-> FormatTime(lstBatch), update |-> FormatTime(lstModif)]

\* The message handed to c.statusUpdate, by its five fields.
StatusOf(nbRIPEranges, nbLists, nbLines, lstModif, lstBatch) ==
    [ripe |-> nbRIPEranges, lists |-> nbLists, lines |-> nbLines,
     modif |-> FormatTime(lstModif), update |-> FormatTime(lstBatch)]

\* Mutant of UpdateStatus: the error of c.statusUpdate is logged with Fatalf,
\* which ends the program, in place of Errorf.
UpdateStatus_Fatal ==
    /\ pc = "b40"
    /\ statusMsg' = StatusOf(Len(ripeState), Cardinality(DOMAIN externalStates),
                             SumLen(externalStates, DOMAIN externalStates),
                             lastUpdate, lastBatch)
    /\ reported' = reported + 1
    /\ \E err \in BOOLEAN :
         /\ statusErr' = err
         /\ pc' = IF err THEN "done" ELSE "bret"
    /\ UNCHANGED <<clockVars, localVars, storeVars, cacheVars, lockVars, countVars,
                   readerVars>>

\* deferred: the count of the external lines and c.updateStatus(...); an
\* error of c.statusUpdate is logged and nothing else.
UpdateStatus ==
    /\ pc = "b40"
    /\ statusMsg' = StatusOf(Len(ripeState), Cardinality(DOMAIN externalStates),
                             SumLen(externalStates, DOMAIN externalStates),
                             lastUpdate, lastBatch)
    /\ reported' = reported + 1
    /\ statusErr' \in BOOLEAN
    /\ pc' = "bret"
    /\ UNCHANGED <<clockVars, localVars, storeVars, cacheVars, lockVars, countVars,
                   readerVars>>

\* updaterBatch returns to the loop of updater.
BatchReturns ==
    /\ pc = "bret"
    /\ pc' = "l24"
    /\ batchStart' = 0
    /\ ripeUpdate' = FALSE
    /\ externalUpdate' = FALSE
    /\ toProbe' = {}
    /\ probed' = NoProbe
    /\ data' = <<>>
    /\ pre' = NoPre
    /\ statusMsg' = NoStatus
    /\ reported' = 0
    /\ statusErr' = FALSE
    /\ UNCHANGED <<clockVars, storeVars, cacheVars, lockVars, countVars, readerVars>>

\* ------------------------------------------------------------------ readers

\* c.compressedDataAccess.RLock(): blocks while a writer holds or awaits the lock.
RLock(r) ==
    /\ rpc[r] = "idle"
    /\ writer = "free"
    /\ readerCount' = readerCount + 1
    /\ rpc' = [rpc EXCEPT ![r] = "rlocked"]
    /\ UNCHANGED <<clockVars, pc, localVars, storeVars, cacheVars, writer, statusVars,
                   countVars, got>>

\* The reader takes the blob, and the two timestamps with it.
Read(r) ==
    /\ rpc[r] = "rlocked"
    /\ got' = [got EXCEPT ![r] = [blob |-> SliceBytes(compressedData),
                                  lastUpdate |-> lastUpdate,
                                  lastBatch |-> lastBatch]]
    /\ rpc' = [rpc EXCEPT ![r] = "rdone"]
    /\ UNCHANGED <<clockVars, pc, localVars, storeVars, cacheVars, lockVars, statusVars,
                   countVars>>

\* c.compressedDataAccess.RUnlock()
RUnlock(r) ==
    /\ rpc[r] = "rdone"
    /\ readerCount' = readerCount - 1
    /\ rpc' = [rpc EXCEPT ![r] = "idle"]
    /\ got' = [got EXCEPT ![r] = NoRead]
    /\ UNCHANGED <<clockVars, pc, localVars, storeVars, cacheVars, writer, statusVars,
                   countVars>>

\* ----------------------------------------------------------- specifications

\* The updater goroutine and its environment.
Next ==
    \/ TimePasses
    \/ Cancel
    \/ NewTicker
    \/ FirstBatch
    \/ SelectTick
    \/ TickBatch
    \/ SelectDone
    \/ StopTicker
    \/ ProbeRipe
    \/ ProbeExternal
    \/ KeepCache
    \/ GlobalUpdate
    \/ Compile
    \/ GiveUp
    \/ LockAnnounce
    \/ LockAcquire
    \/ StorePointer
    \/ StoreLength
    \/ Unlock
    \/ SetLastUpdate
    \/ SetLastBatch
    \/ UpdateStatus
    \/ BatchReturns

Spec == Init /\ [][Next]_vars

\* The updater goroutine running beside the readers of the blob.
NextReaders ==
    \/ Next
    \/ \E r \in Readers : RLock(r)
    \/ \E r \in Readers : Read(r)
    \/ \E r \in Readers : RUnlock(r)

SpecReaders == Init /\ [][NextReaders]_vars

\* The compilation on its own: any content of the state store, compiled,
\* published, and compiled again later with the store left as it was.
InitCompile ==
    /\ now = 1
    /\ tickerOn = TRUE
    /\ tick = FALSE
    /\ cancelled = FALSE
    /\ pc = "b59"
    /\ batchStart = 1
    /\ ripeUpdate = TRUE
    /\ externalUpdate = TRUE
    /\ toProbe = {}
    /\ probed = [src \in Sources |-> 1]
    /\ data = <<>>
    /\ pre = NoPre
    /\ ripeState \in StoreData
    /\ externalStates \in [Names -> StoreData]
    /\ compressedData = NilSlice
    /\ lastUpdate = 0
    /\ lastBatch = 0
    /\ writer = "free"
    /\ readerCount = 0
    /\ statusMsg = NoStatus
    /\ reported = 0
    /\ statusErr = FALSE
    /\ batches = 1
    /\ consumed = 0
    /\ rpc = [r \in Readers |-> "idle"]
    /\ got = [r \in Readers |-> NoRead]

\* compileFinalDataBlobFromCache is called once more on the same store.
CompileAgain ==
    /\ pc \in {"b39", "b67"}
    /\ data' = <<>>
    /\ pc' = "b59"
    /\ UNCHANGED <<clockVars, batchStart, ripeUpdate, externalUpdate, toProbe, probed,
                   pre, storeVars, cacheVars, lockVars, statusVars, countVars, readerVars>>

NextCompile ==
    \/ Compile
    \/ GiveUp
    \/ LockAnnounce
    \/ LockAcquire
    \/ StorePointer
    \/ StoreLength
    \/ Unlock
    \/ CompileAgain

SpecCompile == InitCompile /\ [][NextCompile]_vars

\* The scheduler with a ticker that never runs dry: the clock has reached the
\* last value it is read at, and periods go on elapsing.
InitLive ==
    /\ now = MaxTime
    /\ tickerOn = FALSE
    /\ tick = FALSE
    /\ cancelled = FALSE
    /\ pc = "l19"
    /\ batchStart = 0
    /\ ripeUpdate = FALSE
    /\ externalUpdate = FALSE
    /\ toProbe = {}
    /\ probed = NoProbe
    /\ data = <<>>
    /\ pre = NoPre
    /\ ripeState = <<>>
    /\ externalStates = [n \in Names |-> <<>>]
    /\ compressedData = NilSlice
    /\ lastUpdate = 0
    /\ lastBatch = 0
    /\ writer = "free"
    /\ readerCount = 0
    /\ statusMsg = NoStatus
    /\ reported = 0
    /\ statusErr = FALSE
    /\ batches = 0
    /\ consumed = 0
    /\ rpc = [r \in Readers |-> "idle"]
    /\ got = [r \in Readers |-> NoRead]

\* One more ticker period elapses.
TickArrives ==
    /\ now = MaxTime
    /\ tickerOn
    /\ ~tick
    /\ tick' = TRUE
    /\ UNCHANGED <<now, tickerOn, cancelled, pc, localVars, storeVars, cacheVars,
                   lockVars, statusVars, countVars, readerVars>>

\* The steps of the updater goroutine other than the choice of the select.
UpdaterStep ==
    \/ NewTicker
    \/ FirstBatch
    \/ TickBatch
    \/ StopTicker
    \/ ProbeRipe
    \/ ProbeExternal
    \/ KeepCache
    \/ GlobalUpdate
    \/ Compile
    \/ GiveUp
    \/ LockAnnounce
    \/ LockAcquire
    \/ StorePointer
    \/ StoreLength
    \/ Unlock
    \/ SetLastUpdate
    \/ SetLastBatch
    \/ UpdateStatus
    \/ BatchReturns

NextLive ==
    \/ TickArrives
    \/ Cancel
    \/ SelectTick
    \/ SelectDone
    \/ UpdaterStep

\* The goroutine keeps running and every call it makes returns; the select
\* picks among its ready cases at random, so that a case ready again and
\* again is taken in the end.
SpecLive ==
    /\ InitLive
    /\ [][NextLive]_vars
    /\ WF_vars(UpdaterStep)
    /\ SF_vars(SelectDone)

\* ------------------------------------------------------------------ claims

\* The batch has run its deferred function and is about to return.
BatchOver == pc = "bret"

\* C1: at the end of a batch in which the authoritative probe and every
\* external probe reported "no change", c.compressedData and c.lastUpdate are
\* what the batch found on entry, and c.lastBatch is the batch's start time.
C1_NoChangeKeepsCache ==
    (BatchOver /\ ~ripeUpdate /\ ~externalUpdate) =>
        /\ compressedData = pre.blob
        /\ lastUpdate = pre.lastUpdate
        /\ lastBatch = batchStart

\* A no-change batch ends after an earlier batch has published a blob.
C1_Witness ==
    /\ BatchOver /\ ~ripeUpdate /\ ~externalUpdate
    /\ pre.blob # NilSlice
    /\ pre.lastUpdate < batchStart

\* C2: at the end of a batch in which a probe reported new data and the
\* compilation failed, c.compressedData and c.lastUpdate are what the batch
\* found on entry, c.lastBatch is the batch's start time, and the status has
\* been reported once, with the unchanged content-timestamp.
C2_FailedCompileKeepsCache ==
    (BatchOver /\ (ripeUpdate \/ externalUpdate) /\ data = <<>>) =>
        /\ compressedData = pre.blob
        /\ lastUpdate = pre.lastUpdate
        /\ lastBatch = batchStart
        /\ reported = 1
        /\ statusMsg.modif = FormatTime(pre.lastUpdate)
        /\ statusMsg.update = FormatTime(batchStart)

\* A batch with new data whose compilation failed ends, a blob having been
\* published by an earlier batch.
C2_Witness ==
    /\ BatchOver /\ (ripeUpdate \/ externalUpdate) /\ data = <<>>
    /\ pre.blob # NilSlice
    /\ pre.lastUpdate < batchStart

\* The lines of one source as the blob must show them: joined by single
\* newlines and followed by one trailing newline.
Block(lines) ==
    IF lines = <<>> THEN <<NL>>
    ELSE [i \in 1..(2 * Len(lines)) |->
            IF i % 2 = 1 THEN lines[(i + 1) \div 2] ELSE NL]

\* The text of a blob: the header line, the RIPE block, then the blocks of the
\* external sources in the given order.
BlobText(ripe, ext, order) ==
    <<"# BTBlocklist RIPE search", NL>> \o Block(ripe)
        \o Concat([i \in DOMAIN order |-> Block(ext[order[i]])])

\* The lines appear in the text verbatim, in their order, as one block.
HasLines(text, lines) ==
    \E i \in 1..Len(text) :
        /\ i + 2 * Len(lines) - 1 <= Len(text)
        /\ SubSeq(text, i, i + 2 * Len(lines) - 1) = Block(lines)

\* The published blob decompresses to a text that holds the stored lines of
\* every source that has any.
BlobHoldsStore ==
    LET blob == SliceBytes(compressedData)
        stored == {ripeState} \cup {externalStates[n] : n \in Names}
    IN \A lines \in stored \ {<<>>} :
           GzipValid(blob) /\ HasLines(Decompress(blob), lines)

\* C3: the published blob does not stay behind the stored lines of a source:
\* when a batch in which every probe reported "no change" ends (nothing but
\* such batches need follow), the blob holds the lines every source reported.
C3_BlobFollowsStore ==
    (BatchOver /\ ~ripeUpdate /\ ~externalUpdate) => BlobHoldsStore

\* C4: a compiled blob, and the blob published from it, is a complete gzip
\* stream that decompresses to exactly the header line, the block of the
\* current c.ripeState, and one block per entry of c.externalStates as they
\* stand at the compilation.
C4_BlobFormat ==
    /\ (pc \in {"b60", "b64", "b65"} /\ data # <<>>) =>
           /\ GzipValid(data)
           /\ \E order \in MapOrders(Names) :
                  Decompress(data) = BlobText(ripeState, externalStates, order)
    /\ pc = "b66" => SliceBytes(compressedData) = data

\* Only an external source reported new data, and the blob compiled from the
\* store, with the RIPE lines an earlier batch stored, is published.
C4_Witness ==
    /\ pc = "b66"
    /\ ~ripeUpdate /\ externalUpdate
    /\ ripeState = <<"b", "a">>
    /\ pre.blob # NilSlice
    /\ SliceBytes(compressedData) = data
    /\ HasLines(Decompress(data), ripeState)

\* C5: in every compiled blob the blocks of the external sources come in
\* ascending order of source name.
C5_SortedByName ==
    (pc = "b60" /\ data # <<>>) =>
        Decompress(data) = BlobText(ripeState, externalStates, SortedNames)

\* C6: two compilations of the same content of the state store give the same
\* bytes: a blob compiled from the store the published blob was compiled from
\* is equal to the published blob.
C6_Deterministic ==
    (pc = "b60" /\ data # <<>> /\ compressedData # NilSlice) =>
        data = SliceBytes(compressedData)

\* The running batch has swapped its new blob in and released the write lock.
Swapped == pc \in {"b67", "b39", "b40", "bret"} /\ data # <<>>

\* C7: a reader never holds a mixed triple: one that has read the blob the
\* running batch swapped in has read, with it, the content-timestamp and the
\* batch-attempt timestamp of that batch.
C7_ConsistentTriple ==
    \A r \in Readers :
        (rpc[r] = "rdone" /\ Swapped /\ got[r].blob = data) =>
            /\ got[r].lastUpdate = batchStart
            /\ got[r].lastBatch = batchStart

\* C8: in every state, those inside a running batch included, c.lastUpdate is
\* not later than c.lastBatch.
C8_UpdateNotAfterBatch == lastUpdate <= lastBatch

\* The writer is between Lock and Unlock.
Publishing == pc \in {"b65", "b65len", "b66"}

\* C9: the writer is never between Lock and Unlock while a reader holds the
\* read lock, and what a reader has read under the read lock is the blob that
\* is in place, whole: nil before the first publication, else a complete gzip
\* stream, which is the previous blob or the new one.
C9_ExclusivePublish ==
    /\ Publishing => (writer = "held" /\ readerCount = 0 /\ \A r \in Readers : rpc[r] = "idle")
    /\ \A r \in Readers :
           rpc[r] = "rdone" =>
               /\ got[r].blob = <<>> \/ GzipValid(got[r].blob)
               /\ got[r].blob = SliceBytes(compressedData)
               /\ pc \in {"b60", "b64"} =>
                      got[r].blob \in {SliceBytes(pre.blob), data}

\* A reader holds the previous blob under the read lock while the writer,
\* with a different new blob, waits in Lock.
C9_Witness ==
    \E r \in Readers :
        /\ rpc[r] = "rdone"
        /\ pc = "b64"
        /\ writer = "pending"
        /\ GzipValid(got[r].blob)
        /\ got[r].blob # data

\* C10: the first batch is started right away, no tick having been received,
\* and every later batch is started by one received tick: the batches started
\* number the ticks received plus one.
C10_BatchPerTick ==
    /\ pc \in {"l19", "l21"} => (batches = 0 /\ consumed = 0)
    /\ pc = "l21" => ENABLED FirstBatch
    /\ pc = "l26" => batches = consumed
    /\ pc \notin {"l19", "l21", "l26"} => batches = consumed + 1

\* The third batch has started, on the second tick received.
C10_Witness == pc = "b47" /\ batches = 3 /\ consumed = 2

\* The updater goroutine is inside updaterBatch.
InBatch ==
    pc \in {"b47", "b49", "b59", "b60", "b64", "b65", "b65len", "b66", "b67",
            "b39", "b40", "bret"}

\* C11: once c.ctx is done the scheduler starts no further batch: the select
\* of the loop does not take the tick, which is what calls updaterBatch
\* again, whether or not a tick is pending.
C11_NoBatchAfterCancel ==
    [][(cancelled /\ pc = "l24") => pc' # "l26"]_vars

\* C12: batches never overlap: updaterBatch is entered only when no batch is
\* in progress (the one before has reported its status and returned), and no
\* tick is received while a batch runs: a tick that fires meanwhile waits.
C12_NoOverlap ==
    [][/\ batches' # batches =>
             (~InBatch /\ reported = 0 /\ data = <<>> /\ writer = "free"
                /\ batches' = batches + 1)
       /\ InBatch => (consumed' = consumed /\ (tick => tick'))]_vars

\* A tick has fired while the batch is reporting its status, and waits.
C12_Witness == pc = "b40" /\ tick /\ now > batchStart /\ data # <<>>

\* The lines of a text: its elements other than the "\n".
NbLines(text) == Cardinality({i \in DOMAIN text : text[i] # NL})

\* The lines held for all the external sources together.
TotalLines(ext) ==
    Len(Concat([i \in DOMAIN SortedNames |-> ext[SortedNames[i]]]))

\* C13: a batch calls c.statusUpdate once, at its end and not before, on each
\* of its three paths; the message carries the number of lines of
\* c.ripeState, the number of entries of c.externalStates and the total of
\* their lines as they stand at the end of the batch, and these are the
\* numbers of lines the blob compiled by the batch holds.
C13_StatusOncePerBatch ==
    /\ (InBatch /\ ~BatchOver) => reported = 0
    /\ BatchOver =>
         /\ reported = 1
         /\ statusMsg.ripe = Len(ripeState)
         /\ statusMsg.lists = Cardinality(Names)
         /\ statusMsg.lines = TotalLines(externalStates)
         /\ data # <<>> =>
              NbLines(Decompress(data)) = 1 + statusMsg.ripe + statusMsg.lines

\* A batch that published has reported two RIPE lines and three external ones.
C13_Witness ==
    /\ BatchOver
    /\ Swapped
    /\ statusMsg.ripe = 2
    /\ statusMsg.lines = 3

\* C14: an error returned by c.statusUpdate neither aborts nor rolls back the
\* batch: the call and the return that follows it leave the blob, the two
\* timestamps and the state store alone, the batch ends with the blob and the
\* timestamps its probes and its compilation decided, and the updater is
\* back at the select of its loop.
C14_StatusFailureHarmless ==
    /\ [][/\ (pc = "b40" /\ pc' # pc /\ statusErr') =>
               (pc' = "bret" /\ UNCHANGED <<cacheVars, storeVars>>)
          /\ (pc = "bret" /\ pc' # pc /\ statusErr) =>
               (pc' = "l24" /\ UNCHANGED <<cacheVars, storeVars>>)]_vars
    /\ [](BatchOver /\ statusErr =>
            /\ lastBatch = batchStart
            /\ IF data # <<>>
                 THEN SliceBytes(compressedData) = data /\ lastUpdate = batchStart
                 ELSE compressedData = pre.blob /\ lastUpdate = pre.lastUpdate)

\* A batch has published a blob and its status report has failed.
C14_Witness == BatchOver /\ statusErr /\ Swapped /\ pre.blob # NilSlice

\* C15: the probes of a batch are independent: once the loop over
\* c.blocklists is over, c.updateRipe and the probe of every external source
\* have each been called once, whatever the others returned; a true from one
\* probe alone sends the batch to the compilation, whatever the others
\* returned; and the blob the batch publishes holds the lines every probe of
\* the batch stored.
C15_ProbesIndependent ==
    /\ (InBatch /\ pc # "b47" /\ toProbe = {}) => probed = [src \in Sources |-> 1]
    /\ (pc = "b49" /\ toProbe = {} /\ (ripeUpdate \/ externalUpdate)) =>
          (ENABLED GlobalUpdate /\ ~ENABLED KeepCache)
    /\ Swapped => BlobHoldsStore

\* A batch has published the new RIPE lines while no external probe returned
\* true.
C15_Witness ==
    /\ BatchOver
    /\ Swapped
    /\ ripeUpdate
    /\ ~externalUpdate
    /\ HasLines(Decompress(SliceBytes(compressedData)), ripeState)

\* C16: the loop of updater is left only through the case of c.ctx.Done():
\* whatever the probes, the compilation and the status report of a batch
\* returned, the batch returns to the select; and once c.ctx is done, with
\* every batch returning, the updater stops the ticker and returns, even with
\* a tick ready at every select.
C16_StopsOnlyOnSignal ==
    /\ [](pc \in {"l29", "done"} => cancelled)
    /\ [][(pc = "bret" /\ pc' # pc) => pc' = "l24"]_vars
    /\ cancelled ~> (pc = "done" /\ ~tickerOn)

\* The updater has returned, after several batches, with a tick left in the
\* channel of the stopped ticker.
C16_Witness == pc = "done" /\ ~tickerOn /\ tick /\ batches >= 2

\* C17: at the end of a batch that published a blob, c.lastUpdate is the
\* batchStart of that batch, the time read before any probe ran and not the
\* time of the swap, and so equals the c.lastBatch the same batch set.
C17_ContentTimeIsBatchStart ==
    (BatchOver /\ Swapped) =>
        /\ lastUpdate = batchStart
        /\ lastBatch = batchStart
        /\ lastUpdate = lastBatch

\* A batch has published a blob a period or more after it started.
C17_Witness ==
    /\ BatchOver
    /\ Swapped
    /\ now > batchStart
    /\ lastUpdate = batchStart
    /\ pre.lastUpdate # 0

\* The published blob, as a reader sees it.
Blob == SliceBytes(compressedData)

\* C18: c.compressedData is nil only as long as no batch has published: a
\* blob once there is never nil again, whatever the later batches do, and
\* what a batch leaves in c.compressedData is a complete gzip stream, closed
\* by its trailer.
C18_BlobNeverBackToNil ==
    /\ [][Blob # <<>> => Blob' # <<>>]_vars
    /\ [](Blob = <<>> => lastUpdate = 0)
    /\ [](pc # "b65len" => (Blob = <<>> \/ GzipValid(Blob)))

\* A batch has replaced a published blob by another complete one.
C18_Witness ==
    /\ BatchOver
    /\ pre.blob # NilSlice
    /\ compressedData # pre.blob
    /\ GzipValid(Blob)

\* C19: in the status message of a batch, "Last update" shows the batchStart
\* of the batch that sends it and "Last modification" a time that is not
\* later; when the batch has published a blob the two are the same.
C19_ReportedTimes ==
    BatchOver =>
        /\ statusMsg.update = FormatTime(batchStart)
        /\ statusMsg.modif <= statusMsg.update
        /\ Swapped => statusMsg.modif = statusMsg.update

\* A batch that published nothing has reported a "Last modification" earlier
\* than its "Last update".
C19_Witness ==
    /\ BatchOver
    /\ ~Swapped
    /\ statusMsg.modif # 0
    /\ statusMsg.modif < statusMsg.update

\* The updater is between its call of Lock and the return of Unlock.
InSwap == pc \in {"b64", "b65", "b65len", "b66"}

\* C20: the batch holds or awaits the write lock only between Lock and Unlock
\* around the assignment of the blob; at every other point, the probes, the
\* compilation and the status report included, a reader that asks for the
\* read lock gets it, and one that reads before the swap of the running batch
\* reads the blob that was published when the batch began.
C20_LockOnlyForSwap ==
    /\ writer # "free" => InSwap
    /\ \A r \in Readers :
         /\ (rpc[r] = "idle" /\ ~InSwap) => ENABLED RLock(r)
         /\ (rpc[r] = "rdone" /\ pc \in {"b47", "b49", "b59", "b60"}) =>
               got[r].blob = SliceBytes(pre.blob)

\* A reader has read a published blob while the batch is still probing.
C20_Witness ==
    \E r \in Readers :
        /\ rpc[r] = "rdone"
        /\ pc = "b49"
        /\ toProbe # {}
        /\ GzipValid(got[r].blob)

====
